---- MODULE Spec2Model ----
(***************************************************************************)
(* Model of packages/colors/src/util/geometry.ts: quadratic Bezier         *)
(* sampling, the per-curve and per-path cumulative length caches, the      *)
(* inverse arc-length mapping (u to t) and arcToConstellation.             *)
(*                                                                         *)
(* Numbers.  The source computes in IEEE doubles.  The model computes in   *)
(* exact fixed point:                                                      *)
(*   - a parameter t = d / divisions is the pair [num |-> d, den |->       *)
(*     divisions];                                                         *)
(*   - a point sampled at denominator den holds, per axis, the numerator   *)
(*     of the exact Bezier value over den * den;                           *)
(*   - a length is a whole number of 1 / LenScale coordinate units,        *)
(*     Math.sqrt rounding toward zero to that grid (the finite precision   *)
(*     of a double: a short enough step has length 0, so tables with       *)
(*     equal adjacent entries arise as they do in doubles on underflow);   *)
(*   - u = num / den, and a target arc length is a numerator over u.den.   *)
(* An absent optional (undefined) is << >>, a present one is << value >>.  *)
(***************************************************************************)
EXTENDS Integers, Sequences, FiniteSets, TLC

VARIABLES curves, curvePath, ret, prev, last

vars == <<curves, curvePath, ret, prev, last>>

\* ---------------------------------------------------------------- bounds

MaxDivisions == 3
UDen == 4
LenScale == 2048
MaxCurves == 2

\* Iterations of a long loop evaluated per recursion level of the model.
LoopStride == 16

curveResolution == 128

Undefined == << >>
Some(x) == <<x>>

\* Divisions a caller passes: small explicit ones and the default.
Divisions == (1..MaxDivisions) \cup {curveResolution}

\* u in [0, 1] in steps of 1 / UDen.
Us == {[num |-> n, den |-> UDen] : n \in 0..UDen}

\* The optional distance argument, in length units: absent, zero, inside the
\* tables, and beyond the last entry of every table.
Distances == {Undefined, Some(0), Some(1), Some(LenScale \div 2), Some(16 * LenScale)}

\* The (u, distance) pairs a caller passes: every u without a distance, and
\* each distance with both ends of the u range.
UtoTArgs ==
    {<<u, Undefined>> : u \in Us}
        \cup {<<u, d>> : u \in {v \in Us : v.num \in {0, v.den}}, d \in Distances}

\* Control points of the curves a caller builds (start, control, end).
CurveShapes ==
    << << <<0, 0, 0>>, <<1, 1, 0>>, <<2, 0, 0>> >>,    \* the arch of the example
       << <<2, 0, 0>>, <<3, 0, 0>>, <<4, 0, 0>> >>,    \* a straight line from its end
       << <<1, 1, 1>>, <<1, 1, 1>>, <<1, 1, 1>> >>,    \* coincident control points
       << <<0, 0, 0>>, <<0, 0, 0>>, <<1, 0, 0>> >>,    \* starts at rest
       << <<0, 0, 0>>, <<1, 0, 0>>, <<1, 0, 0>> >>,    \* ends at rest
       << <<0, 0, 0>>, <<2, 0, 0>>, <<0, 0, 0>> >>,    \* out and back to the start
       << <<0, 0, 0>>, <<0, 0, 0>>, <<4, 0, 0>> >> >>  \* starts at rest, longer

NewCurve(points) == [points |-> points, cacheArcLengths |-> Undefined]

\* ------------------------------------------------------------ arithmetic

RECURSIVE SqrtSearch(_, _, _)
\* Largest r in lo..hi-1 with r * r <= n, given lo * lo <= n < hi * hi.
SqrtSearch(n, lo, hi) ==
    IF hi - lo <= 1 THEN lo
    ELSE LET mid == lo + (hi - lo) \div 2
         IN  IF mid * mid <= n THEN SqrtSearch(n, mid, hi)
                               ELSE SqrtSearch(n, lo, mid)

Math_sqrt(n) == SqrtSearch(n, 0, IF n < 46340 THEN n + 1 ELSE 46340)

distanceToSquared(v1, v2) ==
    LET dx == v1[1] - v2[1]
        dy == v1[2] - v2[2]
        dz == v1[3] - v2[3]
    IN  dx * dx + dy * dy + dz * dz

\* v1, v2 are numerators over den * den; the result is in length units.
distanceTo(v1, v2, den) ==
    (Math_sqrt(distanceToSquared(v1, v2)) * LenScale) \div (den * den)

equalsIdentity(v1, v2) == FALSE

equals(v1, v2) == v1[1] = v2[1] /\ v1[2] = v2[2] /\ v1[3] = v2[3]

\* --------------------------------------------------------------- sampling

QuadraticBezierP0(t, p) ==
    LET k == t.den - t.num
    IN  k * k * p

QuadraticBezierP1(t, p) == 2 * (t.den - t.num) * t.num * p

QuadraticBezierP2(t, p) == t.num * t.num * p

QuadraticBezier(t, p0, p1, p2) ==
    QuadraticBezierP0(t, p0) + QuadraticBezierP1(t, p1) + QuadraticBezierP2(t, p2)

getPointOnCurve(curve, t) ==
    LET v0 == curve.points[1]
        v1 == curve.points[2]
        v2 == curve.points[3]
    IN  << QuadraticBezier(t, v0[1], v1[1], v2[1]),
           QuadraticBezier(t, v0[2], v1[2], v2[2]),
           QuadraticBezier(t, v0[3], v1[3], v2[3]) >>

getPointsOnCurveShort(curve, divisions) ==
    [d \in 1..divisions |-> getPointOnCurve(curve, [num |-> d - 1, den |-> divisions])]

\* points[d + 1] is the point pushed at loop index d, for d = 0 .. divisions.
getPointsOnCurve(curve, divisions) ==
    [d \in 1..(divisions + 1) |->
        getPointOnCurve(curve, [num |-> d - 1, den |-> divisions])]

\* ------------------------------------------------------ curve length cache

\* distanceTo(current, last) at loop index p of getCurveLengths: current is the
\* point at p / divisions and last the point of the iteration before.
stepLength(curve, divisions, p) ==
    distanceTo(getPointOnCurve(curve, [num |-> p, den |-> divisions]),
               getPointOnCurve(curve, [num |-> p - 1, den |-> divisions]),
               divisions)

pushStepOnly(acc, step) ==
    [sum |-> step, cache |-> Append(acc.cache, step)]

\* The body of the loop of getCurveLengths: sum += step; cache.push(sum).
\* acc is [sum, cache].
pushStep(acc, step) ==
    [sum |-> acc.sum + step, cache |-> Append(acc.cache, acc.sum + step)]

RECURSIVE lengthsLoopTo(_, _, _)
\* The iterations of the loop up to index hi.  The loop index p is the number
\* of entries pushed so far (cache starts as [0] and p as 1).
lengthsLoopTo(step, hi, acc) ==
    IF Len(acc.cache) > hi THEN acc
    ELSE lengthsLoopTo(step, hi, pushStep(acc, step[Len(acc.cache)]))

RECURSIVE lengthsLoop(_, _)
\* for (p = 1; p <= divisions; p++), run LoopStride iterations at a time.
lengthsLoop(step, acc) ==
    IF Len(acc.cache) > Len(step) THEN acc
    ELSE LET hi == Len(acc.cache) + LoopStride - 1
         IN  lengthsLoop(step, lengthsLoopTo(step, IF hi > Len(step) THEN Len(step) ELSE hi,
                                             acc))

cacheHitAny(curve, divisions) == curve.cacheArcLengths # Undefined

\* The test that returns the cached table.
cacheHit(curve, divisions) ==
    /\ curve.cacheArcLengths # Undefined
    /\ Len(curve.cacheArcLengths[1]) = divisions + 1

\* The body of getCurveLengths past the cache test: the table it builds.
computeLengths(points, divisions) ==
    LET curve == NewCurve(points)
        step == [p \in 1..divisions |-> stepLength(curve, divisions, p)]
    IN  lengthsLoop(step, [sum |-> 0, cache |-> <<0>>]).cache

\* computeLengths is a pure function of the control points and divisions;
\* it is tabulated once over the inputs the callers use.
ShapeSet == {CurveShapes[s] : s \in 1..Len(CurveShapes)}

\* f with every value computed once (a function expression alone is applied
\* by evaluating its body anew at each use).
Tabulate(f) == f @@ << >>

ArcLengthTable ==
    Tabulate([x \in ShapeSet \X Divisions |-> computeLengths(x[1], x[2])])

\* Result: the returned table, the curve as the call leaves it, and whether
\* the table was computed by this call.
getCurveLengths(curve, divisions) ==
    IF cacheHit(curve, divisions)
    THEN [lengths |-> curve.cacheArcLengths[1], curve |-> curve, computed |-> FALSE]
    ELSE LET cache == ArcLengthTable[<<curve.points, divisions>>]
         IN  [lengths |-> cache,
              curve |-> [curve EXCEPT !.cacheArcLengths = Some(cache)],
              computed |-> TRUE]

\* ------------------------------------------------------------- u to t

\* if (distance): an absent argument and 0 are both falsy.
truthy(distance) == distance # Undefined /\ distance[1] # 0

\* The target arc length as a fraction num / den of length units.
targetArcLength(u, distance, total) ==
    IF truthy(distance)
    THEN [num |-> distance[1], den |-> 1]
    ELSE [num |-> u.num * total, den |-> u.den]

\* arcLengths[i] of the source (0-based); undefined outside the array.
At(arcLengths, i) ==
    IF i \in 0..(Len(arcLengths) - 1) THEN Some(arcLengths[i + 1]) ELSE Undefined

RECURSIVE searchLoopInverted(_, _, _, _, _, _)
searchLoopInverted(arcLengths, target, low, high, i, reads) ==
    IF low > high THEN [i |-> i, high |-> high, reads |-> reads]
    ELSE LET mid == low + (high - low) \div 2
             comparison == arcLengths[mid + 1] * target.den - target.num
         IN  IF comparison > 0
             THEN searchLoopInverted(arcLengths, target, mid + 1, high, mid,
                                     reads \cup {mid})
             ELSE IF comparison < 0
             THEN searchLoopInverted(arcLengths, target, low, mid - 1, mid,
                                     reads \cup {mid})
             ELSE [i |-> mid, high |-> mid, reads |-> reads \cup {mid}]

RECURSIVE searchLoop(_, _, _, _, _, _)
\* The while loop of the binary search; reads collects the indices read.
searchLoop(arcLengths, target, low, high, i, reads) ==
    IF low > high THEN [i |-> i, high |-> high, reads |-> reads]
    ELSE LET mid == low + (high - low) \div 2
             comparison == arcLengths[mid + 1] * target.den - target.num
         IN  IF comparison < 0
             THEN searchLoop(arcLengths, target, mid + 1, high, mid, reads \cup {mid})
             ELSE IF comparison > 0
             THEN searchLoop(arcLengths, target, low, mid - 1, mid, reads \cup {mid})
             ELSE [i |-> mid, high |-> mid, reads |-> reads \cup {mid}]

exactMatchNever(arcLengths, i, target) == FALSE

\* arcLengths[i] === targetArcLength
exactMatch(arcLengths, i, target) ==
    /\ At(arcLengths, i) # Undefined
    /\ At(arcLengths, i)[1] * target.den = target.num

\* (targetArcLength - lengthBefore) / segmentLength, as num / den.
segmentFraction(target, lengthBefore, lengthAfter) ==
    [num |-> target.num - lengthBefore * target.den,
     den |-> (lengthAfter - lengthBefore) * target.den]

\* A returned t is (whole + fnum / fden) / den, or not a finite number.
Number(whole, frac, den) ==
    [kind |-> "number", whole |-> whole, fnum |-> frac.num, fden |-> frac.den, den |-> den]

NotFinite == [kind |-> "nan", whole |-> 0, fnum |-> 0, fden |-> 1, den |-> 1]

\* Lines 154-172: i = high, the exact-match return, else the interpolation.
\* found is what the search left; reads are the table indices read.
utotResult(curve, arcLengths, target, found) ==
    LET i == found.high
        il == Len(arcLengths)
        base == [curve |-> curve, target |-> target, i |-> i]
        lengthBefore == At(arcLengths, i)
        lengthAfter == At(arcLengths, i + 1)
        reads == found.reads \cup {i, i + 1}
    IN  IF exactMatch(arcLengths, i, target)
        THEN base @@ [t |-> Number(i, [num |-> 0, den |-> 1], il - 1),
                      exact |-> TRUE, divByZero |-> FALSE,
                      reads |-> found.reads \cup {i}]
        ELSE IF lengthBefore = Undefined \/ lengthAfter = Undefined
        THEN base @@ [t |-> NotFinite, exact |-> FALSE,
                      divByZero |-> FALSE, reads |-> reads]
        ELSE IF lengthAfter[1] - lengthBefore[1] = 0
        THEN base @@ [t |-> NotFinite, exact |-> FALSE,
                      divByZero |-> TRUE, reads |-> reads]
        ELSE base @@ [t |-> Number(i, segmentFraction(target, lengthBefore[1],
                                                      lengthAfter[1]), il - 1),
                      exact |-> FALSE, divByZero |-> FALSE, reads |-> reads]

\* Lines 136-152: the binary search over the whole table.
utotSearch(curve, arcLengths, target) ==
    utotResult(curve, arcLengths, target,
               searchLoop(arcLengths, target, 0, Len(arcLengths) - 1, 0, {}))

\* Lines 123-132: the table at the default resolution and the target.
getCurveUtoTMapping(curve, u, distance) ==
    LET call == getCurveLengths(curve, curveResolution)
    IN  utotSearch(call.curve, call.lengths,
                   targetArcLength(u, distance, call.lengths[Len(call.lengths)]))

\* ------------------------------------------------------- the caller's steps

NoCall == [op |-> "none"]

GetPointsOnCurve(c, divisions) ==
    /\ ret' = [op |-> "getPointsOnCurve", curve |-> c, divisions |-> divisions,
               points |-> getPointsOnCurve(curves[c], divisions)]
    /\ UNCHANGED <<curves, curvePath, prev, last>>

GetCurveLengths(c, divisions) ==
    LET call == getCurveLengths(curves[c], divisions)
    IN  /\ curves' = [curves EXCEPT ![c] = call.curve]
        /\ ret' = [op |-> "getCurveLengths", curve |-> c, divisions |-> divisions,
                   lengths |-> call.lengths, computed |-> call.computed,
                   cachedBefore |-> curves[c].cacheArcLengths,
                   preceding |-> last[c]]
        /\ last' = [last EXCEPT ![c] = Some([divisions |-> divisions,
                                             lengths |-> call.lengths])]
        /\ UNCHANGED <<curvePath, prev>>

GetCurveUtoTMapping(c, u, distance) ==
    LET r == getCurveUtoTMapping(curves[c], u, distance)
    IN  /\ curves' = [curves EXCEPT ![c] = r.curve]
        /\ ret' = [op |-> "getCurveUtoTMapping", curve |-> c, u |-> u,
                   distance |-> distance, target |-> r.target,
                   i |-> r.i, t |-> r.t, exact |-> r.exact,
                   divByZero |-> r.divByZero, reads |-> r.reads]
        /\ prev' = IF ret.op = "getCurveUtoTMapping"
                   THEN Some([u |-> ret.u, distance |-> ret.distance, t |-> ret.t])
                   ELSE prev
        /\ last' = [last EXCEPT ![c] = Some([divisions |-> curveResolution,
                                             lengths |-> r.curve.cacheArcLengths[1]])]
        /\ UNCHANGED curvePath

\* ------------------------------------------------------ path length cache

getCurveLength(curve) ==
    LET call == getCurveLengths(curve, curveResolution)
    IN  [length |-> call.lengths[Len(call.lengths)], curve |-> call.curve,
         lengths |-> call.lengths]

RECURSIVE pathLoop(_, _, _, _, _)
\* The for loop of getCurvePathLengths from curve i on; heap holds the curve
\* objects, whose own caches getCurveLength fills.
pathLoop(heap, ids, i, sums, lengths) ==
    IF i > Len(ids) THEN [lengths |-> lengths, heap |-> heap]
    ELSE LET call == getCurveLength(heap[ids[i]])
         IN  pathLoop([heap EXCEPT ![ids[i]] = call.curve], ids, i + 1,
                      sums + call.length, Append(lengths, sums + call.length))

\* The test that returns the cached path lengths.
pathCacheHit(path) ==
    /\ path.cacheLengths # Undefined
    /\ Len(path.cacheLengths[1]) = Len(path.curves)

getCurvePathLengths(path, heap) ==
    IF pathCacheHit(path)
    THEN [lengths |-> path.cacheLengths[1], path |-> path, heap |-> heap]
    ELSE LET run == pathLoop(heap, path.curves, 1, 0, << >>)
         IN  [lengths |-> run.lengths,
              path |-> [path EXCEPT !.cacheLengths = Some(run.lengths)],
              heap |-> run.heap]

\* ---------------------------------------------------- arcToConstellation

\* The body of the inner loop: skip a point equal to the last one pushed,
\* else push it and remember it.  acc is [k, points, last], k the position
\* of the point in pts.
visitPoint(acc, point) ==
    IF acc.last # Undefined /\ equals(acc.last[1], point)
    THEN [acc EXCEPT !.k = @ + 1]
    ELSE [k |-> acc.k + 1, points |-> Append(acc.points, point), last |-> Some(point)]

RECURSIVE pointsLoopTo(_, _, _)
\* for (const point of pts), from the acc.k-th point up to the hi-th.
pointsLoopTo(pts, hi, acc) ==
    IF acc.k > hi THEN acc
    ELSE pointsLoopTo(pts, hi, visitPoint(acc, pts[acc.k]))

RECURSIVE pointsLoop(_, _)
\* The whole inner loop, run LoopStride points at a time.
pointsLoop(pts, acc) ==
    IF acc.k > Len(pts) THEN acc
    ELSE LET hi == acc.k + LoopStride - 1
         IN  pointsLoop(pts, pointsLoopTo(pts, IF hi > Len(pts) THEN Len(pts) ELSE hi, acc))

RECURSIVE curvesLoop(_, _, _, _)
\* The outer for loop; st is [i, points, last], the loop's variables.
curvesLoop(heap, ids, divisions, st) ==
    IF st.i > Len(ids) THEN st
    ELSE LET pts == getPointsOnCurve(heap[ids[st.i]], divisions)
             acc == pointsLoop(pts, [k |-> 1, points |-> st.points, last |-> st.last])
         IN  curvesLoop(heap, ids, divisions,
                        [i |-> st.i + 1, points |-> acc.points, last |-> acc.last])

arcToConstellation(path, heap, divisions) ==
    curvesLoop(heap, path.curves, divisions,
               [i |-> 1, points |-> << >>, last |-> Undefined]).points

\* ------------------------------------------------- the caller's path steps

AddCurve(c) ==
    /\ Len(curvePath.curves) < MaxCurves
    /\ curvePath' = [curvePath EXCEPT !.curves = Append(@, c)]
    /\ UNCHANGED <<curves, ret, prev, last>>

RemoveCurve(i) ==
    /\ i \in 1..Len(curvePath.curves)
    /\ curvePath' = [curvePath EXCEPT
                        !.curves = SubSeq(@, 1, i - 1) \o SubSeq(@, i + 1, Len(@))]
    /\ UNCHANGED <<curves, ret, prev, last>>

GetCurvePathLengths ==
    LET r == getCurvePathLengths(curvePath, curves)
    IN  /\ curvePath' = r.path
        /\ curves' = r.heap
        /\ ret' = [op |-> "getCurvePathLengths", path |-> curvePath.curves,
                   lengths |-> r.lengths]
        /\ last' = [c \in DOMAIN last |->
                       IF \E i \in 1..Len(curvePath.curves) : curvePath.curves[i] = c
                          /\ ~pathCacheHit(curvePath)
                       THEN Some([divisions |-> curveResolution,
                                  lengths |-> r.heap[c].cacheArcLengths[1]])
                       ELSE last[c]]
        /\ UNCHANGED prev

ArcToConstellation(divisions) ==
    /\ ret' = [op |-> "arcToConstellation", path |-> curvePath.curves,
               divisions |-> divisions,
               points |-> arcToConstellation(curvePath, curves, divisions)]
    /\ UNCHANGED <<curves, curvePath, prev, last>>

\* ------------------------------------------- one curve, queried repeatedly

InitCurve ==
    /\ \E s \in 1..Len(CurveShapes) : curves = << NewCurve(CurveShapes[s]) >>
    /\ curvePath = [curves |-> << >>, cacheLengths |-> Undefined]
    /\ ret = NoCall
    /\ prev = Undefined
    /\ last = << Undefined >>

NextCurve ==
    \/ \E c \in DOMAIN curves, d \in Divisions : GetCurveLengths(c, d)
    \/ \E c \in DOMAIN curves, a \in UtoTArgs : GetCurveUtoTMapping(c, a[1], a[2])

SpecCurve == InitCurve /\ [][NextCurve]_vars

\* -------------------------------- a path that is edited and measured (Spec)

\* The curve objects the path is built from: the arch and the curve of
\* coincident control points (length 0).
PathCurves == << NewCurve(CurveShapes[1]), NewCurve(CurveShapes[3]) >>

Init ==
    /\ curves = PathCurves
    /\ curvePath = [curves |-> << >>, cacheLengths |-> Undefined]
    /\ ret = NoCall
    /\ prev = Undefined
    /\ last = [c \in DOMAIN PathCurves |-> Undefined]

Next ==
    \/ \E c \in DOMAIN curves : AddCurve(c)
    \/ \E i \in 1..MaxCurves : RemoveCurve(i)
    \/ GetCurvePathLengths
    \/ \E c \in DOMAIN curves, d \in Divisions : GetCurveLengths(c, d)

Spec == Init /\ [][Next]_vars

\* ------------------------------------------------ a fixed path, sampled

InitArc ==
    /\ curves = [s \in 1..Len(CurveShapes) |-> NewCurve(CurveShapes[s])]
    /\ \E n \in 0..MaxCurves : \E ids \in [1..n -> 1..Len(CurveShapes)] :
          curvePath = [curves |-> ids, cacheLengths |-> Undefined]
    /\ ret = NoCall
    /\ prev = Undefined
    /\ last = [s \in 1..Len(CurveShapes) |-> Undefined]

NextArc ==
    \/ \E d \in Divisions : ArcToConstellation(d)
    \/ \E c \in DOMAIN curves, d \in Divisions : GetPointsOnCurve(c, d)

SpecArc == InitArc /\ [][NextArc]_vars

\* ================================================================ claims

NonDecreasing(seq) == \A k \in 1..(Len(seq) - 1) : seq[k] <= seq[k + 1]

StrictlyIncreasing(seq) == \A k \in 1..(Len(seq) - 1) : seq[k] < seq[k + 1]

\* The table the last getCurveUtoTMapping call searched: the call leaves it
\* as the curve's cache.
SearchedTable == curves[ret.curve].cacheArcLengths[1]

\* a <= b for two returned t over the same number of divisions.
LeqT(a, b) ==
    /\ a.kind = "number" /\ b.kind = "number" /\ a.den = b.den
    /\ (a.whole * a.fden + a.fnum) * b.fden <= (b.whole * b.fden + b.fnum) * a.fden

\* C1: the sequence arcToConstellation returns holds no two consecutive
\* points equal on all three axes, for every path and divisions.
C1_NoConsecutiveDuplicates ==
    ret.op = "arcToConstellation" =>
        \A k \in 1..(Len(ret.points) - 1) :
            ~(/\ ret.points[k][1] = ret.points[k + 1][1]
              /\ ret.points[k][2] = ret.points[k + 1][2]
              /\ ret.points[k][3] = ret.points[k + 1][3])

\* The arch followed by the line that starts at its end, sampled at 2
\* divisions: 3 + 3 samples, the seam (2,0,0) once.
C1_Witness ==
    /\ ret.op = "arcToConstellation"
    /\ ret.path = <<1, 2>>
    /\ ret.divisions = 2
    /\ ret.points = << <<0, 0, 0>>, <<4, 2, 0>>, <<8, 0, 0>>, <<12, 0, 0>>, <<16, 0, 0>> >>

\* C2: getCurveLengths computes a table exactly when the curve holds no
\* cached table of divisions + 1 entries; a call that repeats the divisions
\* of the preceding call computes nothing and returns the same table, and a
\* call with other divisions returns a table of its own resolution, not the
\* one that was cached.
C2_CacheKeyedOnDivisions ==
    ret.op = "getCurveLengths" =>
        /\ ret.computed <=> (\/ ret.cachedBefore = Undefined
                             \/ Len(ret.cachedBefore[1]) # ret.divisions + 1)
        /\ ret.preceding # Undefined =>
              IF ret.preceding[1].divisions = ret.divisions
              THEN ~ret.computed /\ ret.lengths = ret.preceding[1].lengths
              ELSE /\ Len(ret.lengths) = ret.divisions + 1
                   /\ ret.lengths # ret.preceding[1].lengths
                   /\ ret.lengths # ret.cachedBefore[1]

C2_Witness ==
    /\ ret.op = "getCurveLengths"
    /\ ret.preceding # Undefined
    /\ ret.preceding[1].divisions = ret.divisions
    /\ ~ret.computed
    /\ ret.lengths[Len(ret.lengths)] > 0

\* The running totals of the default-resolution lengths of the curves ids.
RECURSIVE RunningTotals(_, _)
RunningTotals(heap, ids) ==
    IF ids = << >> THEN << >>
    ELSE LET front == RunningTotals(heap, SubSeq(ids, 1, Len(ids) - 1))
             table == ArcLengthTable[<<heap[ids[Len(ids)]].points, curveResolution>>]
             before == IF front = << >> THEN 0 ELSE front[Len(front)]
         IN  Append(front, before + table[Len(table)])

\* C3: every getCurvePathLengths query returns the running totals of the
\* lengths of the curves in the path at the time of the query, whatever
\* curves were added or removed before it.
C3_PathLengthsAreCurrent ==
    ret.op = "getCurvePathLengths" => ret.lengths = RunningTotals(curves, ret.path)

\* C4: getCurveLengths returns divisions + 1 entries, the first 0, in
\* non-decreasing order; getCurvePathLengths returns one entry per curve, in
\* non-decreasing order.
C4_LengthsNonDecreasing ==
    /\ ret.op = "getCurveLengths" =>
          /\ Len(ret.lengths) = ret.divisions + 1
          /\ ret.lengths[1] = 0
          /\ NonDecreasing(ret.lengths)
    /\ ret.op = "getCurvePathLengths" =>
          /\ Len(ret.lengths) = Len(ret.path)
          /\ NonDecreasing(ret.lengths)

C4_Witness ==
    /\ ret.op = "getCurvePathLengths"
    /\ Len(ret.path) = 2
    /\ ret.lengths[1] = ret.lengths[2]
    /\ ret.lengths[1] > 0
    /\ \E c \in DOMAIN curves :
          /\ curves[c].cacheArcLengths # Undefined
          /\ StrictlyIncreasing(curves[c].cacheArcLengths[1])

\* C5: without a distance argument, getCurveUtoTMapping is non-decreasing in
\* u: of two calls on the same curve, the one with the smaller u returns the
\* smaller or equal t.
C5_MonotoneInU ==
    (/\ ret.op = "getCurveUtoTMapping"
     /\ ret.distance = Undefined
     /\ prev # Undefined
     /\ prev[1].distance = Undefined) =>
        /\ prev[1].u.num <= ret.u.num => LeqT(prev[1].t, ret.t)
        /\ ret.u.num <= prev[1].u.num => LeqT(ret.t, prev[1].t)

\* Two interpolated results at increasing u on a table that has equal
\* adjacent entries.
C5_Witness ==
    /\ ret.op = "getCurveUtoTMapping"
    /\ ret.distance = Undefined
    /\ prev # Undefined
    /\ prev[1].distance = Undefined
    /\ prev[1].u.num < ret.u.num
    /\ prev[1].t.fnum > 0
    /\ ret.t.fnum > 0
    /\ ~StrictlyIncreasing(SearchedTable)

\* C6: on a strictly increasing table, u = 0 returns t = 0 and u = 1 returns
\* t = 1, both by the exact-match return.
C6_EndpointsExact ==
    (/\ ret.op = "getCurveUtoTMapping"
     /\ ret.distance = Undefined
     /\ StrictlyIncreasing(SearchedTable)) =>
        /\ ret.u.num = 0 =>
              ret.exact /\ ret.t.kind = "number" /\ ret.t.whole = 0 /\ ret.t.fnum = 0
        /\ ret.u.num = ret.u.den =>
              /\ ret.exact /\ ret.t.kind = "number"
              /\ ret.t.whole = ret.t.den /\ ret.t.fnum = 0

C6_Witness ==
    /\ ret.op = "getCurveUtoTMapping"
    /\ ret.distance = Undefined
    /\ StrictlyIncreasing(SearchedTable)
    /\ ret.u.num = ret.u.den
    /\ ret.exact
    /\ ret.t.whole = curveResolution

\* C7: getPointsOnCurve returns divisions + 1 points, the k-th the quadratic
\* Bezier position at t = k / divisions (held as numerators over divisions
\* squared); the first is the start control point and the last the end
\* control point; the arch at 2 divisions gives (0,0,0), (1,0.5,0), (2,0,0).
C7_SamplesAndEndpoints ==
    ret.op = "getPointsOnCurve" =>
        LET d == ret.divisions
            cp == curves[ret.curve].points
        IN  /\ Len(ret.points) = d + 1
            /\ \A k \in 0..d : \A a \in 1..3 :
                  ret.points[k + 1][a] =
                      (d - k) * (d - k) * cp[1][a] + 2 * (d - k) * k * cp[2][a]
                          + k * k * cp[3][a]
            /\ ret.points[1] = [a \in 1..3 |-> d * d * cp[1][a]]
            /\ ret.points[d + 1] = [a \in 1..3 |-> d * d * cp[3][a]]
            /\ (cp = << <<0, 0, 0>>, <<1, 1, 0>>, <<2, 0, 0>> >> /\ d = 2) =>
                  ret.points = << <<0, 0, 0>>, <<4, 2, 0>>, <<8, 0, 0>> >>

C7_Witness ==
    /\ ret.op = "getPointsOnCurve"
    /\ curves[ret.curve].points = << <<0, 0, 0>>, <<1, 1, 0>>, <<2, 0, 0>> >>
    /\ ret.divisions = 2
    /\ ret.points = << <<0, 0, 0>>, <<4, 2, 0>>, <<8, 0, 0>> >>

\* C8: whenever a distance is supplied to getCurveUtoTMapping, 0 included,
\* the target arc length of the search is that distance.
C8_DistanceOverridesU ==
    (ret.op = "getCurveUtoTMapping" /\ ret.distance # Undefined) =>
        ret.target.num = ret.distance[1] * ret.target.den

\* C9: every index at which getCurveUtoTMapping reads the length table, in
\* the search and in the interpolation, lies within the table.
C9_ReadsInRange ==
    ret.op = "getCurveUtoTMapping" =>
        ret.reads \subseteq 0..(Len(SearchedTable) - 1)

\* The target lies on a segment of length zero of the table.
OnZeroSegment(table, target) ==
    \E j \in 1..(Len(table) - 1) :
        table[j] = table[j + 1] /\ table[j] * target.den = target.num

====
